---- MODULE Spec2Model ----
(***************************************************************************)
(* PLTS hybrid on-grid monitoring: the acquisition, calibration,           *)
(* derivation and classification pipeline of the two sketches of the       *)
(* repository,                                                             *)
(*   - the main monitor  (src/unnamed/part_001, "sketch_jun2a.ino"),       *)
(*   - the LDR monitor   (src/debug_ldr.ino).                              *)
(* The variable sketch says which of the two is flashed on the board.      *)
(*                                                                         *)
(* The C float values are modelled in fixed point, one unit per quantity:  *)
(*   ADC voltages (ldrVoltage, voltageADC, currentADC, voltage)  1e-5 V    *)
(*   lightIntensity                                              1 lux     *)
(*   irradiance                                                  1e-3 W/m2 *)
(*   gridVoltage                                                 1e-2 V    *)
(*   loadCurrent                                                 1e-3 A    *)
(*   activePower                                                 1e-3 W    *)
(*   powerFactor                                                 1e-2      *)
(*   frequency, temperature, humidity                            1e-1      *)
(* Every division rounds down; the thresholds of the code are written in   *)
(* the unit of the value they are compared with.                           *)
(***************************************************************************)
EXTENDS Integers, FiniteSets, Sequences, TLC

VARIABLES
    sketch,         \* "main" | "ldr": which sketch runs
    pc,             \* position of the single thread of control
    i,              \* the for-loop index of the function pc is in
    data,           \* main monitor: SensorData data
    sampled,        \* main monitor: what the driver calls of the current readAllSensors returned
    shown,          \* main monitor: the status label on the display's status bar
    adcValue,       \* LDR monitor globals
    voltage,
    lightIntensity,
    irradiance,
    timestamp,
    readingCount,
    adcSum,         \* LDR monitor: locals of the averaging loops
    validReadings,
    serial,         \* the set of diagnostic lines of interest printed so far
    calReads,       \* analogRead calls made by the calibration stage, per pin
    calRuns         \* how many times the calibration stage was entered

vars == <<sketch, pc, i, data, sampled, shown, adcValue, voltage, lightIntensity,
          irradiance, timestamp, readingCount, adcSum, validReadings, serial,
          calReads, calRuns>>

mainVars == <<data, sampled, shown>>
ldrVars == <<adcValue, voltage, lightIntensity, irradiance, timestamp,
             readingCount, adcSum, validReadings>>

-----------------------------------------------------------------------------
(* Program constants *)

ADC_RESOLUTION == 4095
VREF == 330000
ACS712_SENSITIVITY == 185
SETTLE_ROUNDS == 50
CAL_SAMPLES == 20
CYCLE_SAMPLES == 5
ADC_DEFAULT == 2048
MAX_LUX == 50000
NaN == -100000

isnan(x) == x = NaN

abs(x) == IF x > 0 THEN x ELSE -x

\* (raw * VREF) / ADC_RESOLUTION
AdcVolts(raw) == (raw * VREF) \div ADC_RESOLUTION

-----------------------------------------------------------------------------
(* Input sets: what the hardware capabilities may return *)

DhtTemps == {NaN, 250}
DhtHums == {NaN, 600}
LdrRaws == {62, 125, 2048}
VoltageRaws == {1016, 1410, 1692, 1693, 2048}
CurrentRaws == {0, 2048, 2278}
LdrReadings == {5, 10, 11, 4084, 4085, 4090}
Millis == {1000, 2000}
AdcRange == 0 .. 4095

\* The cap on readingCount (an int the code increments without bound)
MaxReadings == 2

-----------------------------------------------------------------------------
(* Main monitor: pure parts *)

ZeroData ==
    [temperature |-> 0, humidity |-> 0, lightIntensity |-> 0, gridVoltage |-> 0,
     loadCurrent |-> 0, activePower |-> 0, powerFactor |-> 0, frequency |-> 0,
     irradiance |-> 0, dhtError |-> FALSE, ldrError |-> FALSE,
     voltageError |-> FALSE, currentError |-> FALSE]

\* LDR -> lux of readAllSensors
mainLux(ldrVoltage) ==
    IF ldrVoltage > 10000
    THEN LET l0 == (250000000 \div ldrVoltage) - 500
             l1 == IF l0 < 0 THEN 0 ELSE l0
         IN IF l1 > MAX_LUX THEN MAX_LUX ELSE l1
    ELSE 0

\* lux / 120.0
luxToIrradiance(lux) == (lux * 1000) \div 120

\* voltageADC * 220.0
zmptVolts(voltageADC) == (voltageADC * 220) \div 1000

\* acsAmps as it would be with the 66 mV/A sensitivity of the 30 A sensor
acsAmps_sens66(currentADC) ==
    LET currentOffset == VREF \div 2
        currentVoltage == currentADC - currentOffset
    IN (abs(currentVoltage) * 10) \div 66

\* abs(currentVoltage / ACS712_SENSITIVITY), currentVoltage = currentADC - VREF/2
acsAmps(currentADC) ==
    LET currentOffset == VREF \div 2
        currentVoltage == currentADC - currentOffset
    IN (abs(currentVoltage) * 10) \div ACS712_SENSITIVITY

\* limitGridVoltage as it would be with a ceiling of 400
limitGridVoltage_ceiling400(gv) == IF gv > 40000 THEN 0 ELSE gv

\* limitGridVoltage as it would be if it saturated at the ceiling
limitGridVoltage_saturate(gv) == IF gv > 30000 THEN 30000 ELSE gv

\* if(data.gridVoltage > 300) data.gridVoltage = 0;
limitGridVoltage(gv) == IF gv > 30000 THEN 0 ELSE gv

\* if(data.loadCurrent > 50) data.loadCurrent = 0;
limitLoadCurrent(lc) == IF lc > 50000 THEN 0 ELSE lc

\* readAllSensors as it would be if dhtError, once set, stayed set
readAllSensors_stickyError(d, t, h, ldrRaw, voltageRaw, currentRaw) ==
    LET lux == mainLux(AdcVolts(ldrRaw))
    IN [d EXCEPT
          !.temperature = t,
          !.humidity = h,
          !.dhtError = d.dhtError \/ isnan(t) \/ isnan(h),
          !.ldrError = FALSE,
          !.lightIntensity = lux,
          !.irradiance = luxToIrradiance(lux),
          !.voltageError = FALSE,
          !.gridVoltage = limitGridVoltage(zmptVolts(AdcVolts(voltageRaw))),
          !.currentError = FALSE,
          !.loadCurrent = limitLoadCurrent(acsAmps(AdcVolts(currentRaw)))]

\* readAllSensors as it would be if the dark branch left lightIntensity alone
readAllSensors_keepLux(d, t, h, ldrRaw, voltageRaw, currentRaw) ==
    LET ldrVoltage == AdcVolts(ldrRaw)
        lux == IF ldrVoltage > 10000 THEN mainLux(ldrVoltage) ELSE d.lightIntensity
    IN [d EXCEPT
          !.temperature = t,
          !.humidity = h,
          !.dhtError = isnan(t) \/ isnan(h),
          !.ldrError = FALSE,
          !.lightIntensity = lux,
          !.irradiance = luxToIrradiance(lux),
          !.voltageError = FALSE,
          !.gridVoltage = limitGridVoltage(zmptVolts(AdcVolts(voltageRaw))),
          !.currentError = FALSE,
          !.loadCurrent = limitLoadCurrent(acsAmps(AdcVolts(currentRaw)))]

readAllSensors(d, t, h, ldrRaw, voltageRaw, currentRaw) ==
    LET lux == mainLux(AdcVolts(ldrRaw))
    IN [d EXCEPT
          !.temperature = t,
          !.humidity = h,
          !.dhtError = isnan(t) \/ isnan(h),
          !.ldrError = FALSE,
          !.lightIntensity = lux,
          !.irradiance = luxToIrradiance(lux),
          !.voltageError = FALSE,
          !.gridVoltage = limitGridVoltage(zmptVolts(AdcVolts(voltageRaw))),
          !.currentError = FALSE,
          !.loadCurrent = limitLoadCurrent(acsAmps(AdcVolts(currentRaw)))]

\* gridVoltage * loadCurrent * powerFactor
rawPower(gv, lc, pf) == (((gv * lc) \div 100) * pf) \div 100

\* limitPower as it would be without the noise threshold
limitPower_noFloor(p) == IF p > 10000000 THEN 0 ELSE p

\* the 10 kW limit and the 0.1 W noise threshold
limitPower(p) ==
    LET p1 == IF p > 10000000 THEN 0 ELSE p
    IN IF p1 < 100 THEN 0 ELSE p1

calculateElectricalParameters(d) ==
    [d EXCEPT
       !.powerFactor = 90,
       !.activePower = limitPower(rawPower(d.gridVoltage, d.loadCurrent, 90)),
       !.frequency = 500]

\* getSystemStatus as it would be with the load rules tried before the grid rule
getSystemStatus_loadFirst(d) ==
    IF d.activePower > 5000000 THEN "HIGH LOAD"
    ELSE IF d.gridVoltage < 18000 \/ d.gridVoltage > 25000 THEN "GRID FAULT"
    ELSE IF d.activePower > 1000000 THEN "NORMAL"
    ELSE IF d.activePower > 100000 THEN "LOW LOAD"
    ELSE "STANDBY"

getSystemStatus(d) ==
    IF d.gridVoltage < 18000 \/ d.gridVoltage > 25000 THEN "GRID FAULT"
    ELSE IF d.activePower > 5000000 THEN "HIGH LOAD"
    ELSE IF d.activePower > 1000000 THEN "NORMAL"
    ELSE IF d.activePower > 100000 THEN "LOW LOAD"
    ELSE "STANDBY"

-----------------------------------------------------------------------------
(* Main monitor: setup() and loop() *)

NoReads == [ldr |-> 0, voltage |-> 0, current |-> 0]

NoSample ==
    [temperature |-> 0, humidity |-> 0, ldrRaw |-> 0, voltageRaw |-> 0, currentRaw |-> 0]

Init ==
    /\ sketch \in {"main", "ldr"}
    /\ pc = "setup"
    /\ i = 0
    /\ data = ZeroData
    /\ sampled = NoSample
    /\ shown = ""
    /\ adcValue = 0
    /\ voltage = 0
    /\ lightIntensity = 0
    /\ irradiance = 0
    /\ timestamp = 0
    /\ readingCount = 0
    /\ adcSum = 0
    /\ validReadings = 0
    /\ serial = {}
    /\ calReads = NoReads
    /\ calRuns = 0

\* setup(): dht.begin(); display.begin(); then calibrateSensors() is entered
Main_setup ==
    /\ sketch = "main"
    /\ pc = "setup"
    /\ \E displayOk \in BOOLEAN : TRUE
    /\ pc' = "calibrate"
    /\ i' = 0
    /\ calRuns' = calRuns + 1
    /\ UNCHANGED <<sketch, mainVars, ldrVars, serial, calReads>>

\* calibrateSensors_round as it would be if it kept the voltage it read
calibrateSensors_round_keep ==
    /\ sketch = "main"
    /\ pc = "calibrate"
    /\ i < SETTLE_ROUNDS
    /\ \E l \in LdrRaws, v \in VoltageRaws, c \in CurrentRaws :
          data' = [data EXCEPT !.gridVoltage = zmptVolts(AdcVolts(v))]
    /\ calReads' = [ldr |-> calReads.ldr + 1, voltage |-> calReads.voltage + 1,
                    current |-> calReads.current + 1]
    /\ i' = i + 1
    /\ UNCHANGED <<sketch, pc, sampled, shown, ldrVars, serial, calRuns>>

\* calibrateSensors(): one round of the ADC stabilization loop
calibrateSensors_round ==
    /\ sketch = "main"
    /\ pc = "calibrate"
    /\ i < SETTLE_ROUNDS
    /\ \E l \in LdrRaws, v \in VoltageRaws, c \in CurrentRaws : TRUE
    /\ calReads' = [ldr |-> calReads.ldr + 1, voltage |-> calReads.voltage + 1,
                    current |-> calReads.current + 1]
    /\ i' = i + 1
    /\ UNCHANGED <<sketch, pc, mainVars, ldrVars, serial, calRuns>>

\* calibrateSensors() returns; showStartup(); delay(2000); setup() returns
Main_startup ==
    /\ sketch = "main"
    /\ pc = "calibrate"
    /\ ~(i < SETTLE_ROUNDS)
    /\ pc' = "loop_read"
    /\ UNCHANGED <<sketch, i, mainVars, ldrVars, serial, calReads, calRuns>>

Loop_readAllSensors ==
    /\ sketch = "main"
    /\ pc = "loop_read"
    /\ \E t \in DhtTemps, h \in DhtHums, l \in LdrRaws, v \in VoltageRaws,
          c \in CurrentRaws :
          /\ sampled' = [temperature |-> t, humidity |-> h, ldrRaw |-> l,
                         voltageRaw |-> v, currentRaw |-> c]
          /\ data' = readAllSensors(data, t, h, l, v, c)
    /\ pc' = "loop_calc"
    /\ UNCHANGED <<sketch, i, shown, ldrVars, serial, calReads, calRuns>>

Loop_calculateElectricalParameters ==
    /\ sketch = "main"
    /\ pc = "loop_calc"
    /\ data' = calculateElectricalParameters(data)
    /\ pc' = "loop_display"
    /\ UNCHANGED <<sketch, i, sampled, shown, ldrVars, serial, calReads, calRuns>>

\* updateDisplay(): showCompleteMonitoring() draws the fields and getSystemStatus()
Loop_updateDisplay ==
    /\ sketch = "main"
    /\ pc = "loop_display"
    /\ shown' = getSystemStatus(data)
    /\ pc' = "loop_delay"
    /\ UNCHANGED <<sketch, i, data, sampled, ldrVars, serial, calReads, calRuns>>

\* delay(DISPLAY_REFRESH); loop() returns and is called again
Loop_delay ==
    /\ sketch = "main"
    /\ pc = "loop_delay"
    /\ pc' = "loop_read"
    /\ UNCHANGED <<sketch, i, mainVars, ldrVars, serial, calReads, calRuns>>

MainNext ==
    \/ Main_setup
    \/ calibrateSensors_round
    \/ Main_startup
    \/ Loop_readAllSensors
    \/ Loop_calculateElectricalParameters
    \/ Loop_updateDisplay
    \/ Loop_delay

-----------------------------------------------------------------------------
(* LDR monitor: pure parts *)

\* validReading as it would be with both limits accepted
validReading_inclusive(reading) == reading >= 10 /\ reading <= 4085

\* reading > 10 && reading < 4085
validReading(reading) == reading > 10 /\ reading < 4085

\* calBaseline as it would be without the mid-scale default
calBaseline_noDefault(sum, n) == IF n = 0 THEN 0 ELSE sum \div n

\* calibrateLDR: the baseline from the 20 samples
calBaseline(sum, n) == IF n = 0 THEN ADC_DEFAULT ELSE sum \div n

\* cycleAverage as it would be if a cycle without a valid reading fell back
\* to the calibration default
cycleAverage_default(prev, sum, n) == IF n = 0 THEN ADC_DEFAULT ELSE sum \div n

\* readLDRSensor: the average of the valid readings, or the previous value
cycleAverage(prev, sum, n) == IF n = 0 THEN prev ELSE sum \div n

\* (float)adcValue * VREF / ADC_RESOLUTION
ldrVolts(adc) == (adc * VREF) \div ADC_RESOLUTION

\* 50000.0 - ((voltage - 0.3) * 50000.0 / 2.7), clamped to [0, 50000]
linearLux(v) ==
    LET l0 == MAX_LUX - (((v - 30000) * 5) \div 27)
        l1 == IF l0 < 0 THEN 0 ELSE l0
    IN IF l1 > MAX_LUX THEN MAX_LUX ELSE l1

\* calibrateLDR: lux of the baseline
calLux(v) ==
    IF v >= 300000 THEN 0
    ELSE IF v <= 30000 THEN MAX_LUX
    ELSE linearLux(v)

\* readLux as it would be with neither guard nor clamp
readLux_unguarded(v) == MAX_LUX - (((v - 30000) * 5) \div 27)

\* readLDRSensor: lux of the cycle's average, before the minimum-1-lux adjustment
readLux(v) ==
    IF v >= 300000 THEN 0
    ELSE IF v <= 30000 THEN MAX_LUX
    ELSE linearLux(v)

\* minLux as it would be if every zero reading were raised to 1 lux
minLux_always(lux, v) == IF lux = 0 THEN 1 ELSE lux

\* if(lightIntensity == 0 && voltage < 3.0) { lightIntensity = 1; irradiance = 1.0/120.0; }
minLux(lux, v) == IF lux = 0 /\ v < 300000 THEN 1 ELSE lux

minIrradiance(lux, v) ==
    IF lux = 0 /\ v < 300000 THEN 1000 \div 120 ELSE luxToIrradiance(lux)

\* testLDRValues: lux of one test ADC value
testLux(testADC) ==
    LET testVoltage == (testADC * VREF) \div ADC_RESOLUTION
    IN IF testVoltage >= 300000 THEN 0
       ELSE IF testVoltage <= 30000 THEN MAX_LUX
       ELSE linearLux(testVoltage)

\* readLDRSensor after its averaging loop: the four measurement globals from the
\* previous adcValue and the loop's sum and count
readLDRSensor(prev, sum, n) ==
    LET adc == cycleAverage(prev, sum, n)
        v == ldrVolts(adc)
    IN [adcValue |-> adc,
        voltage |-> v,
        lightIntensity |-> minLux(readLux(v), v),
        irradiance |-> minIrradiance(readLux(v), v)]

-----------------------------------------------------------------------------
(* LDR monitor: setup() and loop() *)

\* setup(): Serial.begin(); display.begin() and its error handling
LDR_setup ==
    /\ sketch = "ldr"
    /\ pc = "setup"
    /\ \E displayOk \in BOOLEAN :
          IF displayOk
          THEN /\ pc' = "cal_settle"
               /\ i' = 0
               /\ calRuns' = calRuns + 1
               /\ UNCHANGED serial
          ELSE /\ pc' = "halt"
               /\ serial' = serial \cup {"Display initialization failed!"}
               /\ UNCHANGED <<i, calRuns>>
    /\ UNCHANGED <<sketch, mainVars, ldrVars, calReads>>

\* while(1) { Serial.println("Check I2C connections"); delay(1000); }
LDR_halt ==
    /\ sketch = "ldr"
    /\ pc = "halt"
    /\ serial' = serial \cup {"Check I2C connections"}
    /\ UNCHANGED <<sketch, pc, i, mainVars, ldrVars, calReads, calRuns>>

\* calibrateLDR(): one round of the ADC stabilization loop
calibrateLDR_round ==
    /\ sketch = "ldr"
    /\ pc = "cal_settle"
    /\ i < SETTLE_ROUNDS
    /\ \E reading \in LdrReadings : TRUE
    /\ calReads' = [calReads EXCEPT !.ldr = @ + 1]
    /\ i' = i + 1
    /\ UNCHANGED <<sketch, pc, mainVars, ldrVars, serial, calRuns>>

\* long adcSum = 0; int validReadings = 0; and the sampling loop starts
calibrateLDR_begin ==
    /\ sketch = "ldr"
    /\ pc = "cal_settle"
    /\ ~(i < SETTLE_ROUNDS)
    /\ adcSum' = 0
    /\ validReadings' = 0
    /\ i' = 0
    /\ pc' = "cal_sample"
    /\ UNCHANGED <<sketch, mainVars, adcValue, voltage, lightIntensity, irradiance,
                   timestamp, readingCount, serial, calReads, calRuns>>

\* one round of the sampling loop of calibrateLDR()
calibrateLDR_sample ==
    /\ sketch = "ldr"
    /\ pc = "cal_sample"
    /\ i < CAL_SAMPLES
    /\ \E reading \in LdrReadings :
          IF validReading(reading)
          THEN /\ adcSum' = adcSum + reading
               /\ validReadings' = validReadings + 1
          ELSE UNCHANGED <<adcSum, validReadings>>
    /\ calReads' = [calReads EXCEPT !.ldr = @ + 1]
    /\ i' = i + 1
    /\ UNCHANGED <<sketch, pc, mainVars, adcValue, voltage, lightIntensity,
                   irradiance, timestamp, readingCount, serial, calRuns>>

\* the rest of calibrateLDR(): baseline, its voltage, lux and irradiance
calibrateLDR_finish ==
    /\ sketch = "ldr"
    /\ pc = "cal_sample"
    /\ ~(i < CAL_SAMPLES)
    /\ adcValue' = calBaseline(adcSum, validReadings)
    /\ serial' = serial \cup
          (IF validReadings = 0
           THEN {"WARNING: No valid readings during calibration!"}
           ELSE {"Calibration complete."})
    /\ voltage' = ldrVolts(adcValue')
    /\ lightIntensity' = calLux(voltage')
    /\ irradiance' = luxToIrradiance(lightIntensity')
    /\ pc' = "setup_rest"
    /\ UNCHANGED <<sketch, i, mainVars, timestamp, readingCount, adcSum,
                   validReadings, calReads, calRuns>>

\* manualCalibrationCheck(); testLDRValues(); showStartup(); delay(2000);
\* readingCount = 0; timestamp = 0; setup() returns
LDR_startup ==
    /\ sketch = "ldr"
    /\ pc = "setup_rest"
    /\ readingCount' = 0
    /\ timestamp' = 0
    /\ pc' = "loop_read"
    /\ UNCHANGED <<sketch, i, mainVars, adcValue, voltage, lightIntensity,
                   irradiance, adcSum, validReadings, serial, calReads, calRuns>>

\* readLDRSensor(): timestamp, counter, and the averaging loop starts
readLDRSensor_begin ==
    /\ sketch = "ldr"
    /\ pc = "loop_read"
    /\ readingCount < MaxReadings
    /\ \E now \in Millis : timestamp' = now
    /\ readingCount' = readingCount + 1
    /\ adcSum' = 0
    /\ validReadings' = 0
    /\ i' = 0
    /\ pc' = "read_sample"
    /\ UNCHANGED <<sketch, mainVars, adcValue, voltage, lightIntensity, irradiance,
                   serial, calReads, calRuns>>

\* one round of the averaging loop of readLDRSensor()
readLDRSensor_sample ==
    /\ sketch = "ldr"
    /\ pc = "read_sample"
    /\ i < CYCLE_SAMPLES
    /\ \E reading \in LdrReadings :
          IF validReading(reading)
          THEN /\ adcSum' = adcSum + reading
               /\ validReadings' = validReadings + 1
          ELSE UNCHANGED <<adcSum, validReadings>>
    /\ i' = i + 1
    /\ UNCHANGED <<sketch, pc, mainVars, adcValue, voltage, lightIntensity,
                   irradiance, timestamp, readingCount, serial, calReads, calRuns>>

\* readLDRSensor_finish as it would be if a cycle without a valid reading
\* sampled again instead of keeping the previous value
readLDRSensor_finish_retry ==
    /\ sketch = "ldr"
    /\ pc = "read_sample"
    /\ ~(i < CYCLE_SAMPLES)
    /\ IF validReadings = 0
       THEN /\ i' = 0
            /\ UNCHANGED <<pc, adcValue, voltage, lightIntensity, irradiance, serial>>
       ELSE /\ LET r == readLDRSensor(adcValue, adcSum, validReadings)
               IN /\ adcValue' = r.adcValue
                  /\ voltage' = r.voltage
                  /\ lightIntensity' = r.lightIntensity
                  /\ irradiance' = r.irradiance
            /\ pc' = "loop_display"
            /\ UNCHANGED <<i, serial>>
    /\ UNCHANGED <<sketch, mainVars, timestamp, readingCount, adcSum,
                   validReadings, calReads, calRuns>>

\* the rest of readLDRSensor(): average, voltage, lux, irradiance
readLDRSensor_finish ==
    /\ sketch = "ldr"
    /\ pc = "read_sample"
    /\ ~(i < CYCLE_SAMPLES)
    /\ LET r == readLDRSensor(adcValue, adcSum, validReadings)
       IN /\ adcValue' = r.adcValue
          /\ voltage' = r.voltage
          /\ lightIntensity' = r.lightIntensity
          /\ irradiance' = r.irradiance
    /\ serial' = serial \cup
          (IF validReadings = 0
           THEN {"WARNING: No valid readings! Using previous value."}
           ELSE {})
    /\ pc' = "loop_display"
    /\ UNCHANGED <<sketch, i, mainVars, timestamp, readingCount, adcSum,
                   validReadings, calReads, calRuns>>

\* updateDisplay(); printDataToSerial();
LDR_updateDisplay ==
    /\ sketch = "ldr"
    /\ pc = "loop_display"
    /\ pc' = "loop_delay"
    /\ UNCHANGED <<sketch, i, mainVars, ldrVars, serial, calReads, calRuns>>

\* delay(DISPLAY_REFRESH); loop() returns and is called again
LDR_delay ==
    /\ sketch = "ldr"
    /\ pc = "loop_delay"
    /\ pc' = "loop_read"
    /\ UNCHANGED <<sketch, i, mainVars, ldrVars, serial, calReads, calRuns>>

LdrNext ==
    \/ LDR_setup
    \/ LDR_halt
    \/ calibrateLDR_round
    \/ calibrateLDR_begin
    \/ calibrateLDR_sample
    \/ calibrateLDR_finish
    \/ LDR_startup
    \/ readLDRSensor_begin
    \/ readLDRSensor_sample
    \/ readLDRSensor_finish
    \/ LDR_updateDisplay
    \/ LDR_delay

Next == MainNext \/ LdrNext

Spec == Init /\ [][Next]_vars

\* The board keeps executing: setup() runs on, and loop() is called again
\* whenever it returns.
FairSpec == Spec /\ WF_vars(Next)

-----------------------------------------------------------------------------
(* The derivation and classification stages on any record that              *)
(* readAllSensors can leave within its two limits (gridVoltage <= 300,      *)
(* loadCurrent <= 50), with whatever the previous cycle left in the derived *)
(* fields.                                                                  *)

GridVolts == {0, 100, 17999, 18000, 20000, 25000, 25001, 26000, 30000}
LoadAmps == {0, 111, 112, 500, 5000, 30000, 37037, 37038, 50000}
StalePowers == {0, 7020000}

InitRecord ==
    /\ sketch = "main"
    /\ pc = "loop_calc"
    /\ i = SETTLE_ROUNDS
    /\ \E gv \in GridVolts, lc \in LoadAmps, p \in StalePowers, first \in BOOLEAN :
          data = [ZeroData EXCEPT
                    !.gridVoltage = gv,
                    !.loadCurrent = lc,
                    !.activePower = p,
                    !.powerFactor = IF first THEN 0 ELSE 90,
                    !.frequency = IF first THEN 0 ELSE 500]
    /\ sampled = NoSample
    /\ shown = ""
    /\ adcValue = 0
    /\ voltage = 0
    /\ lightIntensity = 0
    /\ irradiance = 0
    /\ timestamp = 0
    /\ readingCount = 0
    /\ adcSum = 0
    /\ validReadings = 0
    /\ serial = {}
    /\ calReads = [ldr |-> SETTLE_ROUNDS, voltage |-> SETTLE_ROUNDS,
                   current |-> SETTLE_ROUNDS]
    /\ calRuns = 1

NextRecord ==
    \/ Loop_calculateElectricalParameters
    \/ Loop_updateDisplay

SpecRecord == InitRecord /\ [][NextRecord]_vars

-----------------------------------------------------------------------------
(* Claims *)

Labels == {"GRID FAULT", "HIGH LOAD", "NORMAL", "LOW LOAD", "STANDBY"}

\* C1: getSystemStatus is total and first-match-wins: the label shown for a
\* record is GRID FAULT when gridVoltage < 180 or > 250, otherwise HIGH LOAD
\* when activePower > 5000, otherwise NORMAL when > 1000, otherwise LOW LOAD
\* when > 100, otherwise STANDBY; gridVoltage = 260 gives GRID FAULT whatever
\* activePower is.
C1_StatusPriority ==
    (sketch = "main" /\ pc = "loop_delay") =>
        LET gv == data.gridVoltage
            p == data.activePower
            fault == gv < 18000 \/ gv > 25000
        IN /\ shown \in Labels
           /\ (shown = "GRID FAULT") <=> fault
           /\ (shown = "HIGH LOAD") <=> (~fault /\ p > 5000000)
           /\ (shown = "NORMAL") <=> (~fault /\ p <= 5000000 /\ p > 1000000)
           /\ (shown = "LOW LOAD") <=> (~fault /\ p <= 1000000 /\ p > 100000)
           /\ (shown = "STANDBY") <=> (~fault /\ p <= 100000)
           /\ (gv = 26000 => shown = "GRID FAULT")

C1_Witness ==
    /\ pc = "loop_delay"
    /\ data.gridVoltage = 26000
    /\ data.activePower > 5000000
    /\ shown = "GRID FAULT"

\* C10: after calculateElectricalParameters powerFactor = 0.9, frequency = 50.0
\* and activePower is gridVoltage*loadCurrent*0.9 when that lies in
\* [0.1, 10000] and 0 otherwise; so activePower = 0 or 0.1 <= activePower <= 10000.
C10_ActivePower ==
    (sketch = "main" /\ pc \in {"loop_display", "loop_delay"}) =>
        LET product == (((data.gridVoltage * data.loadCurrent) \div 100) * 90) \div 100
        IN /\ data.powerFactor = 90
           /\ data.frequency = 500
           /\ (product >= 100 /\ product <= 10000000) => data.activePower = product
           /\ (product < 100 \/ product > 10000000) => data.activePower = 0
           /\ data.activePower = 0
                \/ (data.activePower >= 100 /\ data.activePower <= 10000000)

C10_Witness ==
    /\ pc = "loop_display"
    /\ data.gridVoltage = 30000
    /\ data.loadCurrent = 37038
    /\ data.activePower = 0

MainAfterRead == sketch = "main" /\ pc \in {"loop_calc", "loop_display", "loop_delay"}
MainAfterCalc == sketch = "main" /\ pc \in {"loop_display", "loop_delay"}
MainAfterDisplay == sketch = "main" /\ pc = "loop_delay"

\* C2 as stated: a cycle that reads raw voltage 2048 and raw current 2048
\* ends with gridVoltage forced to 0, activePower = 0 and the label STANDBY.
C2_Original ==
    (sampled.voltageRaw = 2048 /\ sampled.currentRaw = 2048) =>
        /\ MainAfterRead => data.gridVoltage = 0
        /\ MainAfterCalc => data.activePower = 0
        /\ MainAfterDisplay => shown = "STANDBY"

\* C2 as amended: a cycle that reads raw voltage 2048 and raw current 2048
\* ends with gridVoltage forced to 0 (the conversion, about 363, exceeds the
\* 300 ceiling), activePower = 0 and the label GRID FAULT, since
\* gridVoltage = 0 is below 180 and the grid rule comes first.
C2_EndToEnd ==
    (sampled.voltageRaw = 2048 /\ sampled.currentRaw = 2048) =>
        /\ MainAfterRead =>
              /\ zmptVolts(AdcVolts(sampled.voltageRaw)) > 30000
              /\ data.gridVoltage = 0
        /\ MainAfterCalc => data.activePower = 0
        /\ MainAfterDisplay => shown = "GRID FAULT"

C2_Witness ==
    /\ MainAfterDisplay
    /\ sampled.voltageRaw = 2048
    /\ sampled.currentRaw = 2048
    /\ data.gridVoltage = 0
    /\ data.activePower = 0
    /\ shown = "GRID FAULT"

\* C3: for every raw voltage sample in 0..4095, after readAllSensors
\* gridVoltage is exactly 0 when the converted value raw*VREF/4095*220
\* exceeds 300 and is the converted value otherwise; so 0 <= gridVoltage <= 300
\* in every state and the unclamped value is never in the record.
C3_GridVoltageClamp ==
    /\ data.gridVoltage >= 0 /\ data.gridVoltage <= 30000
    /\ MainAfterRead =>
          LET converted == (((sampled.voltageRaw * VREF) \div ADC_RESOLUTION) * 220) \div 1000
          IN data.gridVoltage = IF converted > 30000 THEN 0 ELSE converted
    /\ (sketch = "main" /\ pc = "loop_read") =>
          \A raw \in AdcRange :
             LET converted == (((raw * VREF) \div ADC_RESOLUTION) * 220) \div 1000
                 d == readAllSensors(data, 250, 600, 2048, raw, 2048)
             IN d.gridVoltage = IF converted > 30000 THEN 0 ELSE converted

C3_Witness ==
    /\ MainAfterRead
    /\ sampled.voltageRaw = 1693
    /\ zmptVolts(AdcVolts(sampled.voltageRaw)) > 30000
    /\ data.gridVoltage = 0

LdrCalibrated ==
    sketch = "ldr" /\ pc \in {"setup_rest", "loop_read", "read_sample", "loop_display",
                              "loop_delay"}
LdrAfterCycle == sketch = "ldr" /\ pc \in {"loop_display", "loop_delay"}

\* C4 as stated: in both variants of the light conversion a raw light sample
\* whose voltage is at or below the low guard threshold (0.1 V in the main
\* monitor, 0.3 V in the LDR monitor) yields lightIntensity = 50000 and
\* irradiance = 50000/120.
C4_LowGuardBright ==
    /\ (MainAfterRead /\ AdcVolts(sampled.ldrRaw) <= 10000) =>
          (data.lightIntensity = 50000 /\ data.irradiance = 416666)
    /\ (LdrCalibrated /\ voltage <= 30000) =>
          (lightIntensity = 50000 /\ irradiance = 416666)

\* C5: in both conversion variants lightIntensity stays within [0, 50000] in
\* every state, after calibration and after every cycle, for every raw sample
\* in 0..4095; and inside the guard regions the conversion returns exactly an
\* extreme value: 0 at or below 0.1 V in the main monitor, 50000 at or below
\* 0.3 V and 0 at or above 3.0 V in the LDR monitor.
C5_LightRange ==
    /\ data.lightIntensity >= 0 /\ data.lightIntensity <= 50000
    /\ lightIntensity >= 0 /\ lightIntensity <= 50000
    /\ (MainAfterRead /\ AdcVolts(sampled.ldrRaw) <= 10000) => data.lightIntensity = 0
    /\ (LdrCalibrated /\ voltage <= 30000) => lightIntensity = 50000
    /\ (LdrCalibrated /\ voltage >= 300000) => lightIntensity = 0
    /\ pc = "setup" =>
          \A raw \in AdcRange :
             LET m == readAllSensors(data, 250, 600, raw, 2048, 2048).lightIntensity
                 v == ldrVolts(raw)
                 c == calLux(v)
                 r == minLux(readLux(v), v)
             IN /\ m >= 0 /\ m <= 50000
                /\ c >= 0 /\ c <= 50000
                /\ r >= 0 /\ r <= 50000
                /\ (raw * 33 <= 4095 * 3) => (c = 50000 /\ r = 50000)
                /\ (raw * 33 >= 4095 * 30) => (c = 0 /\ r = 0)
                /\ (raw * 33 <= 4095) => m = 0

C5_Witness ==
    /\ LdrAfterCycle
    /\ readingCount = 2
    /\ voltage >= 300000
    /\ lightIntensity = 0

\* C6: in calibrateLDR, when none of the 20 baseline samples passes the filter
\* (every one within 10 of 0 or of 4095) adcValue is set to 2048, the warning
\* is printed and calibration still completes; otherwise adcValue is the
\* integer average of the samples that passed the filter.
C6_CalibrationFallback ==
    /\ (sketch = "ldr" /\ pc = "cal_sample") =>
          /\ validReadings <= i
          /\ adcSum >= 11 * validReadings /\ adcSum <= 4084 * validReadings
          /\ ~(i < CAL_SAMPLES) => ENABLED calibrateLDR_finish
    /\ (sketch = "ldr" /\ pc = "setup_rest") =>
          /\ i = 20
          /\ validReadings = 0 =>
                /\ adcValue = 2048
                /\ "WARNING: No valid readings during calibration!" \in serial
          /\ validReadings > 0 =>
                /\ adcValue = adcSum \div validReadings
                /\ "WARNING: No valid readings during calibration!" \notin serial

C6_Witness ==
    /\ sketch = "ldr"
    /\ pc = "setup_rest"
    /\ validReadings = 0
    /\ adcValue = 2048
    /\ "WARNING: No valid readings during calibration!" \in serial

\* A previous state none of whose fields a cycle produces
JunkData ==
    [temperature |-> 777, humidity |-> 777, lightIntensity |-> 777, gridVoltage |-> 777,
     loadCurrent |-> 777, activePower |-> 777, powerFactor |-> 777, frequency |-> 777,
     irradiance |-> 777, dhtError |-> TRUE, ldrError |-> TRUE,
     voltageError |-> TRUE, currentError |-> TRUE]
JunkAdc == JunkData.lightIntensity

MainChainFromJunk ==
    calculateElectricalParameters(
        readAllSensors(JunkData, sampled.temperature, sampled.humidity, sampled.ldrRaw,
                       sampled.voltageRaw, sampled.currentRaw))

LdrMeasured ==
    [adcValue |-> adcValue, voltage |-> voltage, lightIntensity |-> lightIntensity,
     irradiance |-> irradiance]

\* C9 as stated: the values a cycle produces are a function of that cycle's raw
\* inputs only: they equal what the same chain yields from any other previous
\* state, in the main monitor (record and label) and in the LDR monitor
\* (adcValue, voltage, lightIntensity, irradiance).
C9_Original ==
    /\ MainAfterCalc => data = MainChainFromJunk
    /\ MainAfterDisplay => shown = getSystemStatus(MainChainFromJunk)
    /\ LdrAfterCycle => LdrMeasured = readLDRSensor(JunkAdc, adcSum, validReadings)

\* C9 as amended: the same, in the main monitor always and in the LDR monitor
\* for the cycles in which at least one reading passes the filter.
C9_NoHiddenState ==
    /\ MainAfterCalc => data = MainChainFromJunk
    /\ MainAfterDisplay => shown = getSystemStatus(MainChainFromJunk)
    /\ (LdrAfterCycle /\ validReadings > 0) =>
          LdrMeasured = readLDRSensor(JunkAdc, adcSum, validReadings)

C9_Witness ==
    /\ LdrAfterCycle
    /\ readingCount = 2
    /\ "WARNING: No valid readings! Using previous value." \in serial
    /\ validReadings = 3
    /\ adcValue = 11

-----------------------------------------------------------------------------
(* Progress *)

CycleDone == pc = "loop_delay"
AtReadingCap == sketch = "ldr" /\ pc = "loop_read" /\ readingCount = MaxReadings
Halted == sketch = "ldr" /\ pc = "halt"
InLoop == pc \in {"loop_read", "read_sample", "loop_calc", "loop_display", "loop_delay"}
CalComplete == InLoop \/ pc = "setup_rest"

\* C7 as stated: for every outcome of the hardware calls setup completes and
\* the loop then completes cycle after cycle (up to the cap on readingCount).
C7_Original == []<>(CycleDone \/ AtReadingCap)

\* C7 as amended: in the main sketch, and in the LDR sketch when
\* display.begin() succeeds, setup completes and the loop completes cycle after
\* cycle whatever the sensors return; when display.begin() fails in the LDR
\* sketch, setup stays in its "Check I2C connections" loop for ever and no
\* cycle is ever run.
C7_NeverStopsUnlessDisplayFails ==
    /\ []<>(CycleDone \/ AtReadingCap \/ Halted)
    /\ [](Halted => (readingCount = 0 /\ calRuns = 0 /\ shown = ""))
    /\ [](("Display initialization failed!" \in serial) <=> Halted)
    /\ [][Halted => Halted']_vars

C7_Witness ==
    /\ LdrAfterCycle
    /\ readingCount = 2
    /\ "WARNING: No valid readings during calibration!" \in serial
    /\ "WARNING: No valid readings! Using previous value." \in serial
    /\ validReadings = 0

CalReadsDone ==
    IF sketch = "main"
    THEN calReads = [ldr |-> SETTLE_ROUNDS, voltage |-> SETTLE_ROUNDS,
                     current |-> SETTLE_ROUNDS]
    ELSE calReads = [ldr |-> SETTLE_ROUNDS + CAL_SAMPLES, voltage |-> 0, current |-> 0]

CalibrationOrder ==
    /\ [](calRuns <= 1)
    /\ [](CalComplete => (calRuns = 1 /\ CalReadsDone))
    /\ [][CalComplete => (CalComplete' /\ calRuns' = calRuns /\ calReads' = calReads)]_vars
    /\ [][(sketch = "main" /\ pc = "calibrate") => data' = data]_vars

\* C8 as stated: in every execution the calibration stage runs exactly once,
\* completes before the first sampling cycle and is never re-entered; the 50
\* settle rounds of the main monitor read all three channels and leave the
\* Data Record unchanged.
C8_Original == <>CalComplete /\ CalibrationOrder

\* C8 as amended: the same, except that in the execution of the LDR sketch in
\* which display.begin() fails the calibration stage never runs at all.
C8_CalibrationOnce ==
    /\ <>(CalComplete \/ Halted)
    /\ [](Halted => calRuns = 0)
    /\ CalibrationOrder

C8_Witness ==
    /\ sketch = "main"
    /\ pc = "loop_display"
    /\ calRuns = 1
    /\ CalReadsDone
    /\ shown = "NORMAL"

-----------------------------------------------------------------------------

\* C11: after every readAllSensors dhtError is true exactly when the driver
\* returned the undefined sentinel for temperature or for humidity, and when
\* dhtError is false both fields hold the driver's defined values; the flag is
\* recomputed by every cycle, so a cycle that reads defined values after one
\* that did not leaves it false.
C11_DhtErrorPairing ==
    /\ [](MainAfterRead =>
            /\ data.dhtError <=> (sampled.temperature = NaN \/ sampled.humidity = NaN)
            /\ data.temperature = sampled.temperature
            /\ data.humidity = sampled.humidity
            /\ ~data.dhtError => (~isnan(data.temperature) /\ ~isnan(data.humidity)))
    /\ [][(sketch = "main" /\ pc = "loop_read" /\ data.dhtError
             /\ sampled'.temperature # NaN /\ sampled'.humidity # NaN)
          => ~data'.dhtError]_vars

C11_Witness ==
    /\ MainAfterRead
    /\ shown # ""
    /\ sampled.temperature = 250
    /\ sampled.humidity = NaN
    /\ data.dhtError
    /\ data.temperature = 250

-----------------------------------------------------------------------------

\* C12: the voltage, lightIntensity and irradiance that calibrateLDR leaves for
\* its baseline are those readLDRSensor computes in a cycle that ends with the
\* same adcValue, minimum-1-lux adjustment included, and those testLDRValues
\* computes for that ADC value; the three conversions agree on all of 0..4095.
C12_CalibrationFormula ==
    /\ (sketch = "ldr" /\ pc = "setup_rest") =>
          LET cycle == readLDRSensor(adcValue, 0, 0)
          IN /\ cycle.adcValue = adcValue
             /\ voltage = cycle.voltage
             /\ lightIntensity = cycle.lightIntensity
             /\ irradiance = cycle.irradiance
             /\ lightIntensity = testLux(adcValue)
             /\ irradiance = luxToIrradiance(testLux(adcValue))
    /\ (sketch = "ldr" /\ pc = "setup") =>
          \A raw \in AdcRange :
             LET v == ldrVolts(raw)
                 cycle == readLDRSensor(raw, raw, 1)
             IN /\ cycle.adcValue = raw
                /\ cycle.voltage = v
                /\ calLux(v) = cycle.lightIntensity
                /\ luxToIrradiance(calLux(v)) = cycle.irradiance
                /\ calLux(v) = testLux(raw)

C12_Witness ==
    /\ sketch = "ldr"
    /\ pc = "setup_rest"
    /\ validReadings = CAL_SAMPLES
    /\ adcValue = 4084
    /\ voltage >= 300000
    /\ lightIntensity = 0

-----------------------------------------------------------------------------

\* C13: a readLDRSensor cycle adds exactly 1 to readingCount; its sum and count
\* take in the valid readings only; when none of its 5 readings is valid it
\* leaves adcValue, voltage, lightIntensity and irradiance as they were before
\* the cycle, and otherwise adcValue becomes the integer average of the valid
\* readings.
C13_StuckSensorCycle ==
    /\ [][(sketch = "ldr" /\ pc = "loop_read" /\ pc' = "read_sample") =>
             /\ readingCount' = readingCount + 1
             /\ adcSum' = 0
             /\ validReadings' = 0
             /\ UNCHANGED <<adcValue, voltage, lightIntensity, irradiance>>]_vars
    /\ [][(sketch = "ldr" /\ pc = "read_sample" /\ pc' = "read_sample") =>
             /\ UNCHANGED <<adcValue, voltage, lightIntensity, irradiance, readingCount>>
             /\ \/ UNCHANGED <<adcSum, validReadings>>
                \/ /\ validReadings' = validReadings + 1
                   /\ adcSum' - adcSum > 10
                   /\ adcSum' - adcSum < 4085]_vars
    /\ [][(sketch = "ldr" /\ pc = "read_sample" /\ pc' = "loop_display") =>
             /\ i = CYCLE_SAMPLES
             /\ readingCount' = readingCount
             /\ IF validReadings = 0
                THEN /\ UNCHANGED <<adcValue, voltage, lightIntensity, irradiance>>
                     /\ voltage' = ldrVolts(adcValue)
                ELSE /\ adcValue' = adcSum \div validReadings
                     /\ voltage' = ldrVolts(adcValue')]_vars

C13_Witness ==
    /\ LdrAfterCycle
    /\ validReadings = 0
    /\ readingCount = 1
    /\ adcValue = 4084
    /\ lightIntensity = 0
    /\ "WARNING: No valid readings! Using previous value." \in serial

-----------------------------------------------------------------------------

StatusLabelsInReach == {"GRID FAULT", "NORMAL", "LOW LOAD", "STANDBY"}

\* the record after readAllSensors and calculateElectricalParameters of one
\* cycle that reads these raw voltage and current samples
MainCycle(voltageRaw, currentRaw) ==
    calculateElectricalParameters(
        readAllSensors(ZeroData, 250, 600, 2048, voltageRaw, currentRaw))

\* C14: in the main monitor loadCurrent never exceeds about 8.92 A, so neither
\* the 50 A limit nor the 10 kW limit fires; with gridVoltage within 180..250
\* activePower is at most about 2007 W; and the label is never HIGH LOAD, only
\* GRID FAULT, NORMAL, LOW LOAD or STANDBY.  Holds in every reachable state and
\* for every raw voltage and current sample of 0..4095.
C14_HighLoadUnreachable ==
    /\ shown # "HIGH LOAD"
    /\ MainAfterRead =>
          /\ acsAmps(AdcVolts(sampled.currentRaw)) <= 8920
          /\ data.loadCurrent = acsAmps(AdcVolts(sampled.currentRaw))
    /\ MainAfterCalc =>
          /\ rawPower(data.gridVoltage, data.loadCurrent, 90) <= 10000000
          /\ (data.gridVoltage >= 18000 /\ data.gridVoltage <= 25000)
                => data.activePower <= 2007000
    /\ MainAfterDisplay => shown \in StatusLabelsInReach
    /\ (sketch = "main" /\ pc = "setup") =>
          /\ \A currentRaw \in AdcRange :
                /\ acsAmps(AdcVolts(currentRaw)) <= acsAmps(AdcVolts(0))
                /\ acsAmps(AdcVolts(currentRaw)) <= 8920
          /\ \A voltageRaw \in AdcRange : \A currentRaw \in {0, 4095} :
                LET d == MainCycle(voltageRaw, currentRaw)
                IN /\ rawPower(d.gridVoltage, d.loadCurrent, 90) <= 10000000
                   /\ (d.gridVoltage >= 18000 /\ d.gridVoltage <= 25000)
                         => d.activePower <= 2007000
                   /\ getSystemStatus(d) \in StatusLabelsInReach

C14_Witness ==
    /\ MainAfterDisplay
    /\ sampled.voltageRaw = 1410
    /\ sampled.currentRaw = 0
    /\ data.loadCurrent > 8900
    /\ data.activePower > 2000000
    /\ shown = "NORMAL"

-----------------------------------------------------------------------------

\* C15: in the LDR monitor, once calibrateLDR has set the baseline and after
\* any number of readLDRSensor cycles, 11 <= adcValue <= 4084: adcValue is an
\* average of readings the filter accepted, the 2048 default, or a value
\* retained from before.  The filter accepts exactly 11..4084 of 0..4095, and
\* an average of accepted readings stays within those limits.
C15_AdcValueRange ==
    /\ LdrCalibrated => (adcValue >= 11 /\ adcValue <= 4084)
    /\ (sketch = "ldr" /\ pc = "setup") =>
          /\ \A reading \in AdcRange :
                validReading(reading) <=> (reading >= 11 /\ reading <= 4084)
          /\ calBaseline(0, 0) >= 11 /\ calBaseline(0, 0) <= 4084
          /\ \A n \in 1 .. CAL_SAMPLES :
                /\ calBaseline(11 * n, n) = 11
                /\ calBaseline(4084 * n, n) = 4084
          /\ \A n \in 1 .. CYCLE_SAMPLES :
                /\ cycleAverage(ADC_DEFAULT, 11 * n, n) = 11
                /\ cycleAverage(ADC_DEFAULT, 4084 * n, n) = 4084

C15_Witness ==
    /\ LdrAfterCycle
    /\ readingCount = 2
    /\ validReadings = CYCLE_SAMPLES
    /\ adcSum = 11 * CYCLE_SAMPLES
    /\ adcValue = 11

====
